---- MODULE Spec2Model ----
(***************************************************************************)
(* Model of the syntactic front end (src/src/syntax_analysis/parser.rs):   *)
(* the operator resolver (match_operator), the recursive-descent parser    *)
(* (parse, parse_block, parse_expression, parse_assignment_expression,     *)
(* parse_arithmetic_expression, parse_factor), the `mutable` handling      *)
(* (handle_mutable_keyword, handle_mutable_assignment) and match_token.    *)
(*                                                                         *)
(* The lexer, the Block scope chain, the operator precedences and the      *)
(* diagnostics sink are collaborators whose code is not part of the        *)
(* sources at hand; they are modelled from their documented interface.     *)
(***************************************************************************)
EXTENDS Integers, Sequences, FiniteSets, TLC

(***************************************************************************)
(* Bounds of the explored input space.                                     *)
(***************************************************************************)
\* statements per program handed to parse
MaxStmts == 3
\* tokens per stream handed to match_operator / match_token
MaxOpLen == 3
\* statements inside a block handed to parse_block
MaxBlockStmts == 1
\* tokens per unstructured stream handed to parse
MaxParseLen == 3

(***************************************************************************)
(* TokenKind (token.rs).  A kind is a pair <<variant, payload>>.           *)
(***************************************************************************)
LiteralToken(v) == <<"LiteralToken", v>>
KeywordToken(k) == <<"KeywordToken", k>>
SymbolToken(s) == <<"SymbolToken", s>>
IdentifierToken(n) == <<"IdentifierToken", n>>
FactoryToken == <<"FactoryToken", "">>
EndOfFileToken == <<"EndOfFileToken", "">>

\* Token::new(kind, line, column)
Token(kind, line, column) == [kind |-> kind, line |-> line, column |-> column]

(***************************************************************************)
(* Lexer interface: a cursor `p` (1-based) over the token kinds `toks`.    *)
(* The token at index i sits on line 1, column i.                          *)
(***************************************************************************)
\* peek(offset): the token `offset` places after the cursor, EndOfFile past the end
Peek(toks, p, offset) ==
    IF p + offset <= Len(toks)
    THEN Token(toks[p + offset], 1, p + offset)
    ELSE Token(EndOfFileToken, 1, Len(toks) + 1)

\* get_current_token()
CurrentToken(toks, p) == Peek(toks, p, 0)

\* advance(): one token forward, no-op past the end
Advance(toks, p) == IF p <= Len(toks) THEN p + 1 ELSE p

\* for _ in 0..length { advance() }
RECURSIVE AdvanceBy(_, _, _)
AdvanceBy(toks, p, n) ==
    IF n = 0 THEN p ELSE AdvanceBy(toks, Advance(toks, p), n - 1)

(***************************************************************************)
(* Operators and their precedences (higher binds tighter):                 *)
(* exponentiation > unary minus > multiplicative > additive > relational   *)
(* > logical.  An operator without a unary (binary) meaning reports 0.     *)
(***************************************************************************)
ArithmeticOps == {"Addition", "Subtraction", "Multiplication", "Division",
                  "Modulo", "Exponentiation"}
CompoundAssignmentOps == {"AdditionAssignment", "SubtractionAssignment",
                          "MultiplicationAssignment", "DivisionAssignment",
                          "ModuloAssignment", "ExponentiationAssignment"}
AssignmentOps == {"SimpleAssignment"} \cup CompoundAssignmentOps
RelationalOps == {"Equality", "InEquality", "LessThan", "LessThanOrEquals",
                  "GreaterThan", "GreaterThanOrEquals"}
LogicalOps == {"And", "Or", "Not", "Xor"}

\* if let AssignmentOperator(_) = operator
IsAssignmentOperator(op) == op \in AssignmentOps

\* Operator::get_unery_precedence
get_unery_precedence(op) ==
    IF op \in {"Addition", "Subtraction", "Not"} THEN 5 ELSE 0

\* Operator::get_binary_precedence
get_binary_precedence(op) ==
    CASE op = "Exponentiation" -> 6
      [] op \in {"Multiplication", "Division", "Modulo"} -> 4
      [] op \in {"Addition", "Subtraction"} -> 3
      [] op \in RelationalOps -> 2
      [] op \in {"And", "Or", "Xor"} -> 1
      [] OTHER -> 0

(***************************************************************************)
(* Operator resolver: match_operator(offset).                              *)
(***************************************************************************)
None == [some |-> FALSE, op |-> "", length |-> 0]
Some(op, length) == [some |-> TRUE, op |-> op, length |-> length]

IsSymbol(tok) == tok.kind[1] = "SymbolToken"
IsKeyword(tok) == tok.kind[1] = "KeywordToken"

\* the two-way split shared by the lead symbols = + - / % ! > <:
\* `lead =` is `withEquals` (2 tokens), anything else is `alone` (1 token)
SecondIsEquals(second, withEquals, alone) ==
    IF IsSymbol(second)
    THEN IF second.kind[2] = "=" THEN <<withEquals, 2>> ELSE <<alone, 1>>
    ELSE <<alone, 1>>

\* faulty variant of the Asterisk arm: the third token is never inspected
AsteriskNoTernary(second, third) ==
    IF IsSymbol(second)
    THEN IF second.kind[2] = "=" THEN <<"MultiplicationAssignment", 2>>
         ELSE IF second.kind[2] = "*" THEN <<"Exponentiation", 2>>
         ELSE <<"Multiplication", 1>>
    ELSE <<"Multiplication", 1>>

\* the Asterisk arm: *=, **=, **, *
AsteriskOperator(second, third) ==
    IF IsSymbol(second)
    THEN IF second.kind[2] = "="
         THEN <<"MultiplicationAssignment", 2>>
         ELSE IF second.kind[2] = "*"
              THEN IF IsSymbol(third)
                   THEN IF third.kind[2] = "="
                        THEN <<"ExponentiationAssignment", 3>>
                        ELSE <<"Exponentiation", 2>>
                   ELSE <<"Exponentiation", 2>>
              ELSE <<"Multiplication", 1>>
    ELSE <<"Multiplication", 1>>

\* the symbol arm of match_operator: <<operator, length>>, or <<>> for `return None`
SymbolOperator(sym, second, third) ==
    CASE sym = "=" -> SecondIsEquals(second, "Equality", "SimpleAssignment")
      [] sym = "+" -> SecondIsEquals(second, "AdditionAssignment", "Addition")
      [] sym = "-" -> SecondIsEquals(second, "SubtractionAssignment", "Subtraction")
      [] sym = "*" -> AsteriskOperator(second, third)
      [] sym = "/" -> SecondIsEquals(second, "DivisionAssignment", "Division")
      [] sym = "%" -> SecondIsEquals(second, "ModuloAssignment", "Modulo")
      [] sym = "!" -> SecondIsEquals(second, "InEquality", "Not")
      [] sym = ">" -> SecondIsEquals(second, "GreaterThanOrEquals", "GreaterThan")
      [] sym = "<" -> SecondIsEquals(second, "LessThanOrEquals", "LessThan")
      [] OTHER -> <<>>

\* the keyword arm of match_operator
KeywordOperator(keyword, second) ==
    CASE keyword = "is" ->
            IF IsKeyword(second)
            THEN IF second.kind[2] = "not" THEN <<"InEquality", 2>>
                 ELSE <<"Equality", 1>>
            ELSE <<"Equality", 1>>
      [] keyword = "and" -> <<"And", 1>>
      [] keyword = "or" -> <<"Or", 1>>
      [] keyword = "not" -> <<"Not", 1>>
      [] keyword = "xor" -> <<"Xor", 1>>
      [] OTHER -> <<>>

match_operator(toks, p, offset) ==
    LET first == Peek(toks, p, offset)
        second == Peek(toks, p, offset + 1)
        third == Peek(toks, p, offset + 2)
        found == IF IsSymbol(first) THEN SymbolOperator(first.kind[2], second, third)
                 ELSE IF IsKeyword(first) THEN KeywordOperator(first.kind[2], second)
                 ELSE <<>>
    IN  IF found = <<>> THEN None ELSE Some(found[1], offset + found[2])

(***************************************************************************)
(* Variable, Block and the diagnostics sink.  A symbol table is a function *)
(* from the bound names to Variables; a block is its own table `tab` plus  *)
(* the tables of its ancestors `anc`, nearest first.                       *)
(***************************************************************************)
InternalUndefined == "InternalUndefined"

\* Variable::new_mutable(value)
new_mutable(value) == [value |-> value, mutable |-> TRUE]

\* an immutable Variable
new_immutable(value) == [value |-> value, mutable |-> FALSE]

\* SymbolTable::new(): no bindings
EmptyTable == [n \in {} |-> new_mutable(InternalUndefined)]

\* Block::contains_symbol: the name is bound here or in an ancestor
contains_symbol(tab, anc, name) ==
    \/ name \in DOMAIN tab
    \/ \E i \in 1..Len(anc) : name \in DOMAIN anc[i]

\* Block::get_symbol: the nearest binding (callers check contains_symbol first)
get_symbol(tab, anc, name) ==
    IF name \in DOMAIN tab THEN tab[name]
    ELSE LET i == CHOOSE k \in 1..Len(anc) :
                     /\ name \in DOMAIN anc[k]
                     /\ \A j \in 1..(k - 1) : name \notin DOMAIN anc[j]
         IN  anc[i][name]

\* Block::add_symbol: insert into (or overwrite in) the block's own table
add_symbol(tab, name, variable) ==
    [n \in (DOMAIN tab) \cup {name} |-> IF n = name THEN variable ELSE tab[n]]

\* CompilerError::Warnings("You don't need to use mutable keyword twice, ...")
MutableTwiceWarning == <<"Warnings", "mutable keyword used twice">>

\* Diagnostics::add_error
add_error(diag, entry) == Append(diag, entry)

(***************************************************************************)
(* Results.  A parsing function maps a parser state [pos, tab, diag]       *)
(* (cursor, current block's table, diagnostics) to a result that carries   *)
(* the state it leaves behind: Ok(tree), Err(error), or Panic for todo!(). *)
(***************************************************************************)
Ok(val, s) == [kind |-> "Ok", val |-> val, pos |-> s.pos, tab |-> s.tab, diag |-> s.diag]
Err(e, s) == [kind |-> "Err", val |-> e, pos |-> s.pos, tab |-> s.tab, diag |-> s.diag]
Panic(s) == [kind |-> "Panic", val |-> <<"todo">>, pos |-> s.pos, tab |-> s.tab, diag |-> s.diag]
StateOf(r) == [pos |-> r.pos, tab |-> r.tab, diag |-> r.diag]

\* AbstractSyntaxTree variants
Literal(v) == <<"Literal", v>>
Identifier(n) == <<"Identifier", n>>
UnaryExpression(op, e) == <<"UnaryExpression", op, e>>
BinaryExpression(l, op, r) == <<"BinaryExpression", l, op, r>>
ParenthesizedExpression(e) == <<"ParenthesizedExpression", e>>
AssignmentExpression(n, op, e) == <<"AssignmentExpression", n, op, e>>

\* CompilerError variants
UnexpectedToken(kind, line, column) == <<"UnexpectedToken", kind, line, column>>
CannotConvertFromImmutableToMutable == <<"CannotConvertFromImmutableToMutable">>
UnInitializedVariable(n) == <<"UnInitializedVariable", n>>
InvalidUseOfMutableKeyword == <<"InvalidUseOfMutableKeyword">>
UndefinedVariable(n) == <<"UndefinedVariable", n>>
InvalidOperationAsAssignmentOperation == <<"InvalidOperationAsAssignmentOperation">>

(***************************************************************************)
(* handle_mutable_assignment                                               *)
(***************************************************************************)
\* faulty variant of the SimpleAssignment arm: the redundant `mutable` goes unreported
MutableSimpleSilent(name, operator, expression, anc, s) ==
    IF contains_symbol(s.tab, anc, name)
    THEN IF get_symbol(s.tab, anc, name).mutable
         THEN Ok(AssignmentExpression(name, operator, expression),
                 [s EXCEPT !.tab = add_symbol(s.tab, name, new_mutable(InternalUndefined))])
         ELSE Err(CannotConvertFromImmutableToMutable, s)
    ELSE Ok(AssignmentExpression(name, operator, expression),
            [s EXCEPT !.tab = add_symbol(s.tab, name, new_mutable(InternalUndefined))])

\* faulty variant of the SimpleAssignment arm: the redundant `mutable` re-binds immutable
MutableSimpleDemoting(name, operator, expression, anc, s) ==
    IF contains_symbol(s.tab, anc, name)
    THEN IF get_symbol(s.tab, anc, name).mutable
         THEN Ok(AssignmentExpression(name, operator, expression),
                 [s EXCEPT !.diag = add_error(s.diag, MutableTwiceWarning),
                           !.tab = add_symbol(s.tab, name, new_immutable(InternalUndefined))])
         ELSE Err(CannotConvertFromImmutableToMutable, s)
    ELSE Ok(AssignmentExpression(name, operator, expression),
            [s EXCEPT !.tab = add_symbol(s.tab, name, new_mutable(InternalUndefined))])

\* the SimpleAssignment arm: `mutable name = expression`
MutableSimpleAssignment(name, operator, expression, anc, s) ==
    IF contains_symbol(s.tab, anc, name)
    THEN IF get_symbol(s.tab, anc, name).mutable
         THEN Ok(AssignmentExpression(name, operator, expression),
                 [s EXCEPT !.diag = add_error(s.diag, MutableTwiceWarning),
                           !.tab = add_symbol(s.tab, name, new_mutable(InternalUndefined))])
         ELSE Err(CannotConvertFromImmutableToMutable, s)
    ELSE Ok(AssignmentExpression(name, operator, expression),
            [s EXCEPT !.tab = add_symbol(s.tab, name, new_mutable(InternalUndefined))])

\* faulty variant of the compound arm: an unbound name is declared, as `=` would
MutableCompoundDeclaring(name, operator, expression, anc, s) ==
    IF contains_symbol(s.tab, anc, name)
    THEN IF get_symbol(s.tab, anc, name).mutable
         THEN LET tab1 == add_symbol(s.tab, name, new_mutable(InternalUndefined))
                  tab2 == add_symbol(tab1, name,
                                     new_mutable(get_symbol(tab1, anc, name).value))
              IN  Ok(AssignmentExpression(name, operator, expression),
                     [s EXCEPT !.diag = add_error(s.diag, MutableTwiceWarning),
                               !.tab = tab2])
         ELSE Err(CannotConvertFromImmutableToMutable, s)
    ELSE Ok(AssignmentExpression(name, operator, expression),
            [s EXCEPT !.tab = add_symbol(s.tab, name, new_mutable(InternalUndefined))])

\* the compound arm: `mutable name += expression` and the like
MutableCompoundAssignment(name, operator, expression, anc, s) ==
    IF contains_symbol(s.tab, anc, name)
    THEN IF get_symbol(s.tab, anc, name).mutable
         THEN LET tab1 == add_symbol(s.tab, name, new_mutable(InternalUndefined))
                  tab2 == add_symbol(tab1, name,
                                     new_mutable(get_symbol(tab1, anc, name).value))
              IN  Ok(AssignmentExpression(name, operator, expression),
                     [s EXCEPT !.diag = add_error(s.diag, MutableTwiceWarning),
                               !.tab = tab2])
         ELSE Err(CannotConvertFromImmutableToMutable, s)
    ELSE Err(UndefinedVariable(name), s)

\* faulty variant: the first `mutable name = expression` binds the name immutable
HandleMutableFirstImmutable(name, operator, expression, anc, s) ==
    IF operator = "SimpleAssignment"
    THEN IF contains_symbol(s.tab, anc, name)
         THEN MutableSimpleAssignment(name, operator, expression, anc, s)
         ELSE Ok(AssignmentExpression(name, operator, expression),
                 [s EXCEPT !.tab = add_symbol(s.tab, name, new_immutable(InternalUndefined))])
    ELSE IF IsAssignmentOperator(operator)
         THEN MutableCompoundAssignment(name, operator, expression, anc, s)
         ELSE Err(InvalidOperationAsAssignmentOperation, s)

handle_mutable_assignment(name, operator, expression, anc, s) ==
    IF operator = "SimpleAssignment"
    THEN MutableSimpleAssignment(name, operator, expression, anc, s)
    ELSE IF IsAssignmentOperator(operator)
         THEN MutableCompoundAssignment(name, operator, expression, anc, s)
         ELSE Err(InvalidOperationAsAssignmentOperation, s)

(***************************************************************************)
(* The recursive-descent parser.                                           *)
(***************************************************************************)
RECURSIVE parse_assignment_expression(_, _, _)
RECURSIVE parse_arithmetic_expression(_, _, _, _)
RECURSIVE ArithmeticLoop(_, _, _, _)

\* parse_expression(block)
parse_expression(toks, anc, s) == parse_assignment_expression(toks, anc, s)

\* parse_factor, `(` arm, after `self.parse_expression(block)?` returned r:
\* the next token is read and consumed, and must be `)`
CloseParanthesis(toks, token, r) ==
    IF r.kind = "Ok"
    THEN IF CurrentToken(toks, r.pos).kind = SymbolToken(")")
         THEN Ok(ParenthesizedExpression(r.val),
                 [StateOf(r) EXCEPT !.pos = Advance(toks, r.pos)])
         ELSE Err(UnexpectedToken(SymbolToken(")"), token.line, token.column),
                  [StateOf(r) EXCEPT !.pos = Advance(toks, r.pos)])
    ELSE r

\* faulty variant of the match: a literal is read without being consumed
FactorOfLiteralStaying(toks, anc, token, s1) ==
    CASE token.kind[1] = "LiteralToken" ->
             Ok(Literal(token.kind[2]), [s1 EXCEPT !.pos = token.column])
      [] token.kind[1] = "SymbolToken" ->
             IF token.kind[2] = "("
             THEN CloseParanthesis(toks, token, parse_expression(toks, anc, s1))
             ELSE IF token.kind[2] = ")"
                  THEN Err(UnexpectedToken(SymbolToken(")"), token.line, token.column), s1)
                  ELSE Panic(s1)
      [] token.kind[1] = "IdentifierToken" -> Ok(Identifier(token.kind[2]), s1)
      [] OTHER -> Err(UnexpectedToken(token.kind, token.line, token.column), s1)

\* parse_factor, the match on the consumed token; s1 is the state after the advance
FactorOf(toks, anc, token, s1) ==
    CASE token.kind[1] = "LiteralToken" -> Ok(Literal(token.kind[2]), s1)
      [] token.kind[1] = "SymbolToken" ->
             IF token.kind[2] = "("
             THEN CloseParanthesis(toks, token, parse_expression(toks, anc, s1))
             ELSE IF token.kind[2] = ")"
                  THEN Err(UnexpectedToken(SymbolToken(")"), token.line, token.column), s1)
                  ELSE Panic(s1)
      [] token.kind[1] = "IdentifierToken" -> Ok(Identifier(token.kind[2]), s1)
      [] OTHER -> Err(UnexpectedToken(token.kind, token.line, token.column), s1)

\* let token = self.lexer.get_current_token_and_advance(); match &token.kind ...
parse_factor(toks, anc, s) ==
    FactorOf(toks, anc, CurrentToken(toks, s.pos), [s EXCEPT !.pos = Advance(toks, s.pos)])

\* AbstractSyntaxTree::UnaryExpression(operator, Box::new(expression)) after `?`
UnaryNode(operator, r) ==
    IF r.kind = "Ok" THEN Ok(UnaryExpression(operator, r.val), StateOf(r)) ELSE r

\* `let mut left = ...`, m being match_operator(0)
ArithmeticLeft(toks, anc, s, parent_precedence, m) ==
    IF m.some /\ get_unery_precedence(m.op) >= parent_precedence
    THEN UnaryNode(m.op,
                   parse_arithmetic_expression(toks, anc,
                       [s EXCEPT !.pos = Advance(toks, s.pos)],
                       get_unery_precedence(m.op)))
    ELSE parse_factor(toks, anc, s)

\* faulty variant of the loop's break test: an equal precedence keeps folding
StopsAtStrict(precedence, parent_precedence) == precedence < parent_precedence

\* `if precedence <= parent_precedence { break; }`
StopsAt(precedence, parent_precedence) == precedence <= parent_precedence

\* left = BinaryExpression(left, operator, right) after `?`, then the loop goes on
FoldBinary(toks, anc, left, operator, right, parent_precedence) ==
    IF right.kind = "Ok"
    THEN ArithmeticLoop(toks, anc,
             Ok(BinaryExpression(left.val, operator, right.val), StateOf(right)),
             parent_precedence)
    ELSE right

\* one pass of the loop body, m being match_operator(0); r is the Ok result holding `left`
LoopBody(toks, anc, r, parent_precedence, m) ==
    IF ~m.some THEN r
    ELSE IF StopsAt(get_binary_precedence(m.op), parent_precedence) THEN r
    ELSE FoldBinary(toks, anc, r, m.op,
             parse_arithmetic_expression(toks, anc,
                 [StateOf(r) EXCEPT !.pos = AdvanceBy(toks, r.pos, m.length)],
                 get_binary_precedence(m.op)),
             parent_precedence)

\* while let Some((operator, length)) = self.match_operator(0) { ... }
ArithmeticLoop(toks, anc, r, parent_precedence) ==
    LoopBody(toks, anc, r, parent_precedence, match_operator(toks, r.pos, 0))

\* the `?` on `left`, then the loop
LoopFrom(toks, anc, left, parent_precedence) ==
    IF left.kind = "Ok" THEN ArithmeticLoop(toks, anc, left, parent_precedence) ELSE left

parse_arithmetic_expression(toks, anc, s, parent_precedence) ==
    LoopFrom(toks, anc,
             ArithmeticLeft(toks, anc, s, parent_precedence, match_operator(toks, s.pos, 0)),
             parent_precedence)

\* faulty variant of the bare arm: only a mutable binding is refused
BareMutableLenient(variable_name, anc, s) ==
    IF contains_symbol(s.tab, anc, variable_name)
       /\ get_symbol(s.tab, anc, variable_name).mutable
    THEN Err(CannotConvertFromImmutableToMutable, s)
    ELSE Err(UnInitializedVariable(variable_name), s)

\* the `mutable name` arm without an operator: nothing is consumed
BareMutable(variable_name, anc, s) ==
    IF contains_symbol(s.tab, anc, variable_name)
    THEN Err(CannotConvertFromImmutableToMutable, s)
    ELSE Err(UnInitializedVariable(variable_name), s)

\* handle_mutable_assignment(variable_name, operator, expression, block) after `?`
MutableAfterExpression(variable_name, operator, anc, r) ==
    IF r.kind = "Ok"
    THEN handle_mutable_assignment(variable_name, operator, r.val, anc, StateOf(r))
    ELSE r

\* handle_mutable_keyword once the name is known, m being match_operator(2)
MutableNamed(toks, anc, s, variable_name, m) ==
    IF m.some
    THEN MutableAfterExpression(variable_name, m.op, anc,
             parse_assignment_expression(toks, anc,
                 [s EXCEPT !.pos = AdvanceBy(toks, s.pos, m.length)]))
    ELSE BareMutable(variable_name, anc, s)

handle_mutable_keyword(toks, anc, s) ==
    IF Peek(toks, s.pos, 1).kind[1] = "IdentifierToken"
    THEN MutableNamed(toks, anc, s, Peek(toks, s.pos, 1).kind[2],
                      match_operator(toks, s.pos, 2))
    ELSE Err(InvalidUseOfMutableKeyword, s)

\* faulty variant of the plain assignment: the name is bound, immutable, in the block
PlainAssignmentBinding(name, operator, r) ==
    IF r.kind = "Ok"
    THEN Ok(AssignmentExpression(name, operator, r.val),
            [StateOf(r) EXCEPT !.tab = add_symbol(r.tab, name, new_immutable(InternalUndefined))])
    ELSE r

\* the node built for `name <assignment-op> expression` without `mutable`, after `?`
PlainAssignment(name, operator, r) ==
    IF r.kind = "Ok"
    THEN Ok(AssignmentExpression(name, operator, r.val), StateOf(r))
    ELSE r

\* the IdentifierToken arm, m being match_operator(1)
IdentifierArm(toks, anc, s, name, m) ==
    IF m.some /\ IsAssignmentOperator(m.op)
    THEN PlainAssignment(name, m.op,
             parse_assignment_expression(toks, anc,
                 [s EXCEPT !.pos = AdvanceBy(toks, s.pos, m.length)]))
    ELSE parse_arithmetic_expression(toks, anc, s, 0)

\* the match on the current token's kind
AssignmentArms(toks, anc, s, kind) ==
    IF kind = KeywordToken("mutable")
    THEN handle_mutable_keyword(toks, anc, s)
    ELSE IF kind[1] = "IdentifierToken"
         THEN IdentifierArm(toks, anc, s, kind[2], match_operator(toks, s.pos, 1))
         ELSE parse_arithmetic_expression(toks, anc, s, 0)

parse_assignment_expression(toks, anc, s) ==
    AssignmentArms(toks, anc, s, CurrentToken(toks, s.pos).kind)

\* faulty variant of match_token: a mismatching token is skipped
MatchTokenSkipping(toks, p, kind) ==
    LET current_token == CurrentToken(toks, p)
    IN  IF kind = current_token.kind
        THEN <<current_token, Advance(toks, p)>>
        ELSE <<Token(FactoryToken, current_token.line, current_token.column),
               Advance(toks, p)>>

\* match_token(kind): <<returned token, cursor afterwards>>
match_token(toks, p, kind) ==
    LET current_token == CurrentToken(toks, p)
    IN  IF kind = current_token.kind
        THEN <<current_token, Advance(toks, p)>>
        ELSE <<Token(FactoryToken, current_token.line, current_token.column), p>>

(***************************************************************************)
(* Inputs: token streams and caller-supplied blocks.                       *)
(***************************************************************************)
Names == {"x", "y"}
Symbols == {"=", "+", "-", "*", "/", "%", "!", ">", "<", "(", ")", "{", "}"}

\* how the lexer delivers each operator, one token per character or keyword
Spell(op) ==
    CASE op = "SimpleAssignment" -> <<SymbolToken("=")>>
      [] op = "AdditionAssignment" -> <<SymbolToken("+"), SymbolToken("=")>>
      [] op = "SubtractionAssignment" -> <<SymbolToken("-"), SymbolToken("=")>>
      [] op = "MultiplicationAssignment" -> <<SymbolToken("*"), SymbolToken("=")>>
      [] op = "DivisionAssignment" -> <<SymbolToken("/"), SymbolToken("=")>>
      [] op = "ModuloAssignment" -> <<SymbolToken("%"), SymbolToken("=")>>
      [] op = "ExponentiationAssignment" ->
             <<SymbolToken("*"), SymbolToken("*"), SymbolToken("=")>>
      [] op = "Addition" -> <<SymbolToken("+")>>
      [] op = "Subtraction" -> <<SymbolToken("-")>>
      [] op = "Multiplication" -> <<SymbolToken("*")>>
      [] op = "Division" -> <<SymbolToken("/")>>
      [] op = "Modulo" -> <<SymbolToken("%")>>
      [] op = "Exponentiation" -> <<SymbolToken("*"), SymbolToken("*")>>
      [] op = "Equality" -> <<SymbolToken("="), SymbolToken("=")>>
      [] op = "InEquality" -> <<SymbolToken("!"), SymbolToken("=")>>
      [] op = "LessThan" -> <<SymbolToken("<")>>
      [] op = "LessThanOrEquals" -> <<SymbolToken("<"), SymbolToken("=")>>
      [] op = "GreaterThan" -> <<SymbolToken(">")>>
      [] op = "GreaterThanOrEquals" -> <<SymbolToken(">"), SymbolToken("=")>>
      [] op = "And" -> <<KeywordToken("and")>>
      [] op = "Or" -> <<KeywordToken("or")>>
      [] op = "Xor" -> <<KeywordToken("xor")>>
      [] op = "Not" -> <<SymbolToken("!")>>

\* the keyword spellings of Equality and InEquality
KeywordSpellings ==
    { [op |-> "Equality", toks |-> <<KeywordToken("is")>>],
      [op |-> "InEquality", toks |-> <<KeywordToken("is"), KeywordToken("not")>>] }

BinaryOps == ArithmeticOps \cup RelationalOps \cup {"And", "Or", "Xor"}
BinarySpellings == { [op |-> o, toks |-> Spell(o)] : o \in BinaryOps } \cup KeywordSpellings

Mutable == <<KeywordToken("mutable")>>
One == <<LiteralToken("1")>>

\* `mutable n <op> 1`
MutableStmt(n, op) == Mutable \o <<IdentifierToken(n)>> \o Spell(op) \o One
\* `n <op> 1`
PlainStmt(n, op) == <<IdentifierToken(n)>> \o Spell(op) \o One
\* `mutable n`
BareStmt(n) == Mutable \o <<IdentifierToken(n)>>

\* statements of the programs handed to parse
ProgramStmts ==
    { MutableStmt("x", op) : op \in AssignmentOps \cup {"Equality"} }
    \cup { MutableStmt("y", "SimpleAssignment"), MutableStmt("y", "AdditionAssignment") }
    \cup { PlainStmt("x", "SimpleAssignment"), PlainStmt("x", "AdditionAssignment") }
    \cup { BareStmt("x"), Mutable \o One,
           Mutable \o <<IdentifierToken("x")>> \o Spell("SimpleAssignment")
               \o <<LiteralToken("2")>> }

\* the token stream of a sequence of statements
RECURSIVE Flatten(_)
Flatten(stmts) ==
    IF Len(stmts) = 0 THEN <<>> ELSE Head(stmts) \o Flatten(Tail(stmts))

\* tokens is a program of at most MaxStmts statements
IsProgram(toks) ==
    \E k \in 0..MaxStmts : \E stmts \in [1..k -> ProgramStmts] : toks = Flatten(stmts)

\* `a op1 b op2 c` over literal and identifier operands
Expressions ==
    { <<a>> \o s1.toks \o <<IdentifierToken("y")>> \o s2.toks \o <<LiteralToken("2")>> :
        a \in {IdentifierToken("x"), LiteralToken("1")},
        s1 \in BinarySpellings, s2 \in BinarySpellings }

\* `a op1 op2 b`: a binary operator followed by a symbol in unary position
UnaryOperands ==
    { <<IdentifierToken("x")>> \o s1.toks \o Spell(u) \o <<IdentifierToken("y")>> :
        s1 \in BinarySpellings, u \in {"Addition", "Subtraction", "Not"} }

\* streams for the resolver: every symbol, a literal and the keywords `is`, `not`
ShortAlphabet ==
    { SymbolToken(sy) : sy \in Symbols }
    \cup { LiteralToken("1"), KeywordToken("is"), KeywordToken("not") }

\* streams for parse: operands, operators, brackets and `mutable` in any order
ParseAlphabet ==
    { SymbolToken(sy) : sy \in {"=", "*", "-", "(", ")", "{"} }
    \cup { LiteralToken("1"), IdentifierToken("x"), KeywordToken("mutable") }

\* every stream of at most n tokens of the alphabet
IsStream(toks, alphabet, n) ==
    \E k \in 0..n : \E f \in [1..k -> alphabet] : toks = [i \in 1..k |-> f[i]]

\* single statements handed to parse_expression together with a block
SingleStmts ==
    { MutableStmt(n, op) : n \in Names, op \in AssignmentOps \cup {"LessThan"} }
    \cup { PlainStmt(n, op) : n \in Names, op \in {"SimpleAssignment", "ModuloAssignment"} }
    \cup { BareStmt(n) : n \in Names }
    \cup { Mutable \o <<IdentifierToken("x")>> \o Spell("SimpleAssignment")
               \o MutableStmt("x", "SimpleAssignment"),
           Mutable \o <<IdentifierToken("y")>> \o Spell("AdditionAssignment")
               \o MutableStmt("y", "SimpleAssignment"),
           <<IdentifierToken("x")>> \o Spell("SimpleAssignment")
               \o MutableStmt("y", "SimpleAssignment") }

\* the bindings a caller may have put into a block
Bindings == { new_immutable("1"), new_mutable(InternalUndefined), new_mutable("1") }
TablesOver(names) ==
    UNION { [d -> Bindings] : d \in SUBSET names }

\* statements inside the braces handed to parse_block
BlockStmts ==
    { MutableStmt("x", "SimpleAssignment"), MutableStmt("x", "AdditionAssignment"),
      BareStmt("x"), PlainStmt("x", "SimpleAssignment") }

\* tokens is `{ body }` with either brace possibly missing
IsBlockStream(toks) ==
    \E open \in {<<>>, <<SymbolToken("{")>>}, close \in {<<>>, <<SymbolToken("}")>>} :
        \E k \in 0..MaxBlockStmts : \E body \in [1..k -> BlockStmts] :
            toks = open \o Flatten(body) \o close

(***************************************************************************)
(* The state machine.                                                      *)
(***************************************************************************)
VARIABLES
    entry,        \* the function the caller invoked
    pc,           \* where that invocation stands
    tokens,       \* Lexer: the token kinds
    pos,          \* Lexer: the cursor
    table,        \* the current block's own symbol table
    ancestors,    \* the tables of the current block's ancestors, nearest first
    diagnostics,  \* the diagnostics sink
    statements,   \* the statements pushed by the running loop
    offset,       \* argument of match_operator
    expected,     \* argument of match_token
    operator,     \* what match_operator returned
    returned,     \* what match_token returned
    result        \* what parse / parse_block / parse_expression returned

vars == <<entry, pc, tokens, pos, table, ancestors, diagnostics, statements,
          offset, expected, operator, returned, result>>

Pending == <<"Pending">>
NoToken == Token(FactoryToken, 0, 0)

InitCommon ==
    /\ pos = 1
    /\ diagnostics = <<>>
    /\ statements = <<>>
    /\ operator = None
    /\ returned = NoToken
    /\ result = Pending

\* Parser::new(lexer).parse(): the global block is empty
InitParse ==
    /\ entry = "parse"
    /\ pc = "loop"
    /\ \/ IsProgram(tokens)
       \/ tokens \in Expressions \cup UnaryOperands
       \/ IsStream(tokens, ParseAlphabet, MaxParseLen)
    /\ table = EmptyTable
    /\ ancestors = <<>>
    /\ offset = 0
    /\ expected = EndOfFileToken

\* parse_expression(&mut block) on a block built by the caller
InitParseExpression ==
    /\ entry = "parse_expression"
    /\ pc = "call"
    /\ tokens \in SingleStmts \cup {<<>>}
    /\ table \in TablesOver(Names)
    /\ ancestors \in {<<>>} \cup { <<t>> : t \in TablesOver({"x"}) }
    /\ offset = 0
    /\ expected = EndOfFileToken

\* parse_block(parent)
InitParseBlock ==
    /\ entry = "parse_block"
    /\ pc = "open"
    /\ IsBlockStream(tokens)
    /\ table \in TablesOver({"x"})
    /\ ancestors = <<>>
    /\ offset = 0
    /\ expected = EndOfFileToken

\* match_operator(offset)
InitMatchOperator ==
    /\ entry = "match_operator"
    /\ pc = "call"
    /\ IsStream(tokens, ShortAlphabet, MaxOpLen)
    /\ table = EmptyTable
    /\ ancestors = <<>>
    /\ offset \in 0..2
    /\ expected = EndOfFileToken

\* match_token(kind), with the kinds parse_block asks for and a literal
InitMatchToken ==
    /\ entry = "match_token"
    /\ pc = "call"
    /\ IsStream(tokens, ShortAlphabet, 1)
    /\ table = EmptyTable
    /\ ancestors = <<>>
    /\ offset = 0
    /\ expected \in {SymbolToken("{"), SymbolToken("}"), LiteralToken("1")}

Init ==
    /\ InitCommon
    /\ \/ InitParse
       \/ InitParseExpression
       \/ InitParseBlock
       \/ InitMatchOperator
       \/ InitMatchToken

Here == [pos |-> pos, tab |-> table, diag |-> diagnostics]
CurrentKind == CurrentToken(tokens, pos).kind

\* one `let statement = self.parse_expression(block)?; statements.push(..)`
RunStatement ==
    LET r == parse_expression(tokens, ancestors, Here)
    IN  /\ pos' = r.pos
        /\ table' = r.tab
        /\ diagnostics' = r.diag
        /\ IF r.kind = "Ok"
           THEN /\ statements' = Append(statements, r.val)
                /\ UNCHANGED <<pc, result>>
           ELSE /\ result' = <<r.kind, r.val>>
                /\ pc' = "done"
                /\ UNCHANGED statements
        /\ UNCHANGED <<entry, tokens, ancestors, offset, expected, operator, returned>>

\* parse: one iteration of the top-level loop
ParseStatement ==
    /\ entry = "parse"
    /\ pc = "loop"
    /\ CurrentKind # EndOfFileToken
    /\ RunStatement

\* parse: end-of-file reached, the global block is returned
ParseReturn ==
    /\ entry = "parse"
    /\ pc = "loop"
    /\ CurrentKind = EndOfFileToken
    /\ result' = <<"Ok", statements>>
    /\ pc' = "done"
    /\ UNCHANGED <<entry, tokens, pos, table, ancestors, diagnostics, statements,
                   offset, expected, operator, returned>>

\* parse_expression called directly
ParseExpression ==
    /\ entry = "parse_expression"
    /\ pc = "call"
    /\ LET r == parse_expression(tokens, ancestors, Here)
       IN  /\ pos' = r.pos
           /\ table' = r.tab
           /\ diagnostics' = r.diag
           /\ result' = <<r.kind, r.val>>
    /\ pc' = "done"
    /\ UNCHANGED <<entry, tokens, ancestors, statements, offset, expected,
                   operator, returned>>

\* parse_block: match `{`, then Block::from(parent)
BlockOpen ==
    /\ entry = "parse_block"
    /\ pc = "open"
    /\ pos' = match_token(tokens, pos, SymbolToken("{"))[2]
    /\ ancestors' = <<table>> \o ancestors
    /\ table' = EmptyTable
    /\ pc' = "block_loop"
    /\ UNCHANGED <<entry, tokens, diagnostics, statements, offset, expected,
                   operator, returned, result>>

\* parse_block: one iteration of the statement loop
BlockStatement ==
    /\ entry = "parse_block"
    /\ pc = "block_loop"
    /\ CurrentKind # SymbolToken("}")
    /\ CurrentKind # EndOfFileToken
    /\ RunStatement

\* parse_block: match `}` and return the block
BlockClose ==
    /\ entry = "parse_block"
    /\ pc = "block_loop"
    /\ (CurrentKind = SymbolToken("}") \/ CurrentKind = EndOfFileToken)
    /\ pos' = match_token(tokens, pos, SymbolToken("}"))[2]
    /\ result' = <<"Ok", statements>>
    /\ pc' = "done"
    /\ UNCHANGED <<entry, tokens, table, ancestors, diagnostics, statements,
                   offset, expected, operator, returned>>

\* match_operator(offset) called on its own
MatchOperator ==
    /\ entry = "match_operator"
    /\ pc = "call"
    /\ operator' = match_operator(tokens, pos, offset)
    /\ pc' = "done"
    /\ UNCHANGED <<entry, tokens, pos, table, ancestors, diagnostics, statements,
                   offset, expected, returned, result>>

\* match_token(expected) called on its own
MatchToken ==
    /\ entry = "match_token"
    /\ pc = "call"
    /\ returned' = match_token(tokens, pos, expected)[1]
    /\ pos' = match_token(tokens, pos, expected)[2]
    /\ pc' = "done"
    /\ UNCHANGED <<entry, tokens, table, ancestors, diagnostics, statements,
                   offset, expected, operator, result>>

Next ==
    \/ ParseStatement
    \/ ParseReturn
    \/ ParseExpression
    \/ BlockOpen
    \/ BlockStatement
    \/ BlockClose
    \/ MatchOperator
    \/ MatchToken

Spec == Init /\ [][Next]_vars

(***************************************************************************)
(* Vocabulary of the properties below.                                     *)
(***************************************************************************)
\* the next step parses one statement starting at the cursor
ParsesStatement ==
    \/ entry = "parse" /\ pc = "loop" /\ CurrentKind # EndOfFileToken
    \/ entry = "parse_expression" /\ pc = "call"
    \/ /\ entry = "parse_block" /\ pc = "block_loop"
       /\ CurrentKind # SymbolToken("}") /\ CurrentKind # EndOfFileToken

\* the cursor is at `mutable` followed by an identifier
AtMutableName ==
    /\ CurrentKind = KeywordToken("mutable")
    /\ Peek(tokens, pos, 1).kind[1] = "IdentifierToken"
NameAfterMutable == Peek(tokens, pos, 1).kind[2]
OperatorAfterMutable == match_operator(tokens, pos, 2)

\* the cursor is at an identifier followed by an assignment operator
AtPlainAssignment ==
    /\ CurrentKind[1] = "IdentifierToken"
    /\ match_operator(tokens, pos, 1).some
    /\ IsAssignmentOperator(match_operator(tokens, pos, 1).op)

NoMutableBetween(from, to) ==
    \A i \in from..to : i \in 1..Len(tokens) => tokens[i] # KeywordToken("mutable")

\* the right-hand side after `mutable name <op>` parses, and holds no `mutable`
MutableRhs ==
    parse_assignment_expression(tokens, ancestors,
        [Here EXCEPT !.pos = AdvanceBy(tokens, pos, OperatorAfterMutable.length)])
MutableRhsIsPlain ==
    /\ MutableRhs.kind = "Ok"
    /\ NoMutableBetween(pos + OperatorAfterMutable.length, MutableRhs.pos - 1)

\* outcome of a statement step, read off the next state
StepOk ==
    IF entry = "parse_expression"
    THEN result'[1] = "Ok"
    ELSE Len(statements') = Len(statements) + 1
StepNode ==
    IF entry = "parse_expression" THEN result'[2] ELSE statements'[Len(statements')]
StepFailsWith(e) == result' = <<"Err", e>> /\ statements' = statements

Bound(n) == contains_symbol(table, ancestors, n)
BoundMutable(n) == Bound(n) /\ get_symbol(table, ancestors, n).mutable

(***************************************************************************)
(* C1.  From an empty global scope, `x = 1` followed by `mutable x = 2`    *)
(* makes the second statement fail: parse returns                          *)
(* CannotConvertFromImmutableToMutable, not a tree.                        *)
(***************************************************************************)
ImmutableThenMutable ==
    PlainStmt("x", "SimpleAssignment")
        \o Mutable \o <<IdentifierToken("x")>> \o Spell("SimpleAssignment")
        \o <<LiteralToken("2")>>

C1_ImmutableThenMutableFails ==
    (entry = "parse" /\ tokens = ImmutableThenMutable /\ pc = "done")
        => result = <<"Err", CannotConvertFromImmutableToMutable>>

(***************************************************************************)
(* C2.  `mutable x = e` (e parses and holds no `mutable`) on a name that   *)
(* is unbound succeeds with an AssignmentExpression node, adds no warning  *)
(* and leaves the name bound mutable; on a name that is bound mutable it   *)
(* succeeds with an AssignmentExpression node and adds exactly one         *)
(* warning.  Hence a program of k statements `mutable x = <literal>`       *)
(* parsed from the empty global scope never fails and holds exactly one    *)
(* warning per statement after the first.                                  *)
(***************************************************************************)
\* tokens is `mutable x = <literal>` repeated
OnlyRedundantMutables ==
    /\ Len(tokens) % 4 = 0
    /\ \A i \in 1..Len(tokens) :
          CASE i % 4 = 1 -> tokens[i] = KeywordToken("mutable")
            [] i % 4 = 2 -> tokens[i] = IdentifierToken("x")
            [] i % 4 = 3 -> tokens[i] = SymbolToken("=")
            [] OTHER -> tokens[i][1] = "LiteralToken"

C2_Step ==
    (/\ ParsesStatement
     /\ AtMutableName
     /\ OperatorAfterMutable.some
     /\ OperatorAfterMutable.op = "SimpleAssignment"
     /\ MutableRhsIsPlain
     /\ (~Bound(NameAfterMutable) \/ BoundMutable(NameAfterMutable)))
    => /\ StepOk
       /\ StepNode = AssignmentExpression(NameAfterMutable, "SimpleAssignment", MutableRhs.val)
       /\ diagnostics' = IF Bound(NameAfterMutable)
                         THEN Append(diagnostics, MutableTwiceWarning)
                         ELSE diagnostics
       /\ NameAfterMutable \in DOMAIN table'
       /\ table'[NameAfterMutable].mutable

C2_Totals ==
    (entry = "parse" /\ OnlyRedundantMutables)
    => /\ result[1] \in {"Pending", "Ok"}
       /\ Len(diagnostics) = IF Len(statements) = 0 THEN 0 ELSE Len(statements) - 1
       /\ pc = "done" => Len(statements) * 4 = Len(tokens)

C2_RedundantMutableWarnsOnce == [][C2_Step]_vars /\ []C2_Totals

\* three repetitions parsed: two warnings, three statements, no error
C2_Witness ==
    /\ entry = "parse"
    /\ OnlyRedundantMutables
    /\ pc = "done"
    /\ Len(statements) >= 3
    /\ Len(diagnostics) = Len(statements) - 1
    /\ result[1] = "Ok"

(***************************************************************************)
(* C3.  A compound `mutable x <op>= e` on a name bound mutable with stored *)
(* value v leaves x bound to v.                                            *)
(***************************************************************************)
C3_CompoundKeepsValue ==
    [][ (/\ ParsesStatement
         /\ AtMutableName
         /\ OperatorAfterMutable.some
         /\ OperatorAfterMutable.op \in CompoundAssignmentOps
         /\ BoundMutable(NameAfterMutable))
        => /\ contains_symbol(table', ancestors', NameAfterMutable)
           /\ get_symbol(table', ancestors', NameAfterMutable).value
                  = get_symbol(table, ancestors, NameAfterMutable).value ]_vars

(***************************************************************************)
(* C4.  `mutable y <op>= e` with a compound operator, y bound neither in   *)
(* the current block nor in an ancestor, e parsing and holding no          *)
(* `mutable`: the statement fails with UndefinedVariable(y) and y stays    *)
(* unbound.                                                                *)
(***************************************************************************)
C4_UndefinedCompound ==
    [][ (/\ ParsesStatement
         /\ AtMutableName
         /\ OperatorAfterMutable.some
         /\ OperatorAfterMutable.op \in CompoundAssignmentOps
         /\ MutableRhsIsPlain
         /\ ~Bound(NameAfterMutable))
        => /\ StepFailsWith(UndefinedVariable(NameAfterMutable))
           /\ pc' = "done"
           /\ ~contains_symbol(table', ancestors', NameAfterMutable) ]_vars

\* `mutable y **= 1` was refused in a block that binds x only
C4_Witness ==
    /\ pc = "done"
    /\ tokens = MutableStmt("y", "ExponentiationAssignment")
    /\ result = <<"Err", UndefinedVariable("y")>>
    /\ "x" \in DOMAIN table
    /\ ~contains_symbol(table, ancestors, "y")

(***************************************************************************)
(* C5.  Cursor at `mutable`, next token an identifier n, no operator two   *)
(* tokens ahead: the statement fails with                                  *)
(* CannotConvertFromImmutableToMutable if n is bound here or in an         *)
(* ancestor (mutable or not), with UnInitializedVariable(n) if n is        *)
(* unbound; the symbol tables are unchanged.                               *)
(***************************************************************************)
C5_BareMutable ==
    [][ (/\ ParsesStatement
         /\ AtMutableName
         /\ ~OperatorAfterMutable.some)
        => /\ StepFailsWith(IF Bound(NameAfterMutable)
                            THEN CannotConvertFromImmutableToMutable
                            ELSE UnInitializedVariable(NameAfterMutable))
           /\ pc' = "done"
           /\ table' = table
           /\ ancestors' = ancestors ]_vars

\* bare `mutable x` was refused although x is bound immutable in the parent only
C5_Witness ==
    /\ pc = "done"
    /\ tokens = BareStmt("x")
    /\ result = <<"Err", CannotConvertFromImmutableToMutable>>
    /\ "x" \notin DOMAIN table
    /\ Len(ancestors) = 1
    /\ "x" \in DOMAIN ancestors[1]
    /\ ~ancestors[1]["x"].mutable

(***************************************************************************)
(* C6.  match_operator(0) on a stream that starts with a symbol: for a     *)
(* lead symbol among = + - * / % ! > < the result is the longest operator  *)
(* the upcoming tokens spell, with its token count (1, 2 or 3); followed   *)
(* by end-of-file or a token that continues no operator it is the          *)
(* single-character operator with count 1; any other lead symbol yields   *)
(* None.                                                                   *)
(***************************************************************************)
LeadSymbols == {"=", "+", "-", "*", "/", "%", "!", ">", "<"}
SymbolSpelledOps == AssignmentOps \cup ArithmeticOps \cup RelationalOps \cup {"Not"}

IsPrefix(sp, toks) ==
    /\ Len(sp) <= Len(toks)
    /\ \A i \in 1..Len(sp) : toks[i] = sp[i]

SpelledBy(toks) == { op \in SymbolSpelledOps : IsPrefix(Spell(op), toks) }

LongestSpelled(toks) ==
    CHOOSE op \in SpelledBy(toks) :
        \A o \in SpelledBy(toks) : Len(Spell(o)) <= Len(Spell(op))

C6_LongestOperator ==
    (/\ entry = "match_operator"
     /\ pc = "done"
     /\ offset = 0
     /\ Len(tokens) >= 1
     /\ tokens[1][1] = "SymbolToken")
    => IF tokens[1][2] \in LeadSymbols
       THEN /\ operator = Some(LongestSpelled(tokens), Len(Spell(LongestSpelled(tokens))))
            /\ (Len(tokens) = 1 \/ tokens[2] \notin {SymbolToken("="), SymbolToken("*")})
                   => operator = Some(LongestSpelled(<<tokens[1]>>), 1)
       ELSE operator = None

\* `**=` was resolved as one operator of three tokens
C6_Witness ==
    /\ entry = "match_operator"
    /\ pc = "done"
    /\ offset = 0
    /\ tokens = Spell("ExponentiationAssignment")
    /\ operator = Some("ExponentiationAssignment", 3)

(***************************************************************************)
(* C7.  For operands a, b, c (literals or identifiers) and binary          *)
(* operators op1, op2, parsing `a op1 b op2 c` yields                      *)
(* BinaryExpression(a, op1, BinaryExpression(b, op2, c)) when op2 binds    *)
(* tighter than op1, and BinaryExpression(BinaryExpression(a, op1, b),     *)
(* op2, c) when the two precedences are equal.                             *)
(***************************************************************************)
NodeOf(kind) == IF kind[1] = "LiteralToken" THEN Literal(kind[2]) ELSE Identifier(kind[2])

ExpressionOf(a, s1, b, s2, c) == <<a>> \o s1.toks \o <<b>> \o s2.toks \o <<c>>

C7_PrecedenceAndAssociativity ==
    (entry = "parse" /\ pc = "done")
    => \A a \in {IdentifierToken("x"), LiteralToken("1")} :
       \A s1 \in BinarySpellings : \A s2 \in BinarySpellings :
          LET b == IdentifierToken("y")
              c == LiteralToken("2")
              p1 == get_binary_precedence(s1.op)
              p2 == get_binary_precedence(s2.op)
          IN  tokens = ExpressionOf(a, s1, b, s2, c)
              => /\ (p2 > p1) =>
                       result = <<"Ok", <<BinaryExpression(NodeOf(a), s1.op,
                                              BinaryExpression(NodeOf(b), s2.op, NodeOf(c)))>> >>
                 /\ (p2 = p1) =>
                       result = <<"Ok", <<BinaryExpression(
                                              BinaryExpression(NodeOf(a), s1.op, NodeOf(b)),
                                              s2.op, NodeOf(c))>> >>

\* `x - y + 2` was parsed as (x - y) + 2
C7_Witness ==
    /\ entry = "parse"
    /\ pc = "done"
    /\ tokens = <<IdentifierToken("x"), SymbolToken("-"), IdentifierToken("y"),
                  SymbolToken("+"), LiteralToken("2")>>
    /\ result = <<"Ok", <<BinaryExpression(
                              BinaryExpression(Identifier("x"), "Subtraction", Identifier("y")),
                              "Addition", Literal("2"))>> >>

(***************************************************************************)
(* C8.  match_token(expected): when the current token's kind differs from  *)
(* expected the cursor stays, no error is raised and the returned token is *)
(* a FactoryToken with the current token's line and column; when it equals *)
(* expected the cursor advances by exactly one and that token is returned. *)
(* So parse_block, reaching end-of-file where `}` should be, returns Ok.   *)
(***************************************************************************)
C8_MatchToken ==
    [][ /\ (entry = "match_token" /\ pc = "call")
           => IF CurrentKind # expected
              THEN /\ pos' = pos
                   /\ result' = result
                   /\ returned' = Token(FactoryToken, CurrentToken(tokens, pos).line,
                                        CurrentToken(tokens, pos).column)
              ELSE /\ pos' = pos + 1
                   /\ returned' = CurrentToken(tokens, pos)
        /\ (entry = "parse_block" /\ pc = "block_loop" /\ CurrentKind = EndOfFileToken)
           => /\ result' = <<"Ok", statements>>
              /\ pc' = "done"
              /\ pos' = pos ]_vars

\* parse_block returned Ok for `{ mutable x = 1` with the closing brace missing
C8_Witness ==
    /\ entry = "parse_block"
    /\ pc = "done"
    /\ tokens = <<SymbolToken("{")>> \o MutableStmt("x", "SimpleAssignment")
    /\ result[1] = "Ok"
    /\ Len(result[2]) = 1
    /\ pos = Len(tokens) + 1

(***************************************************************************)
(* C9.  parse always ends by returning a value, the root block or the      *)
(* first fatal error; a token in factor position that is no literal,       *)
(* identifier or parenthesis yields a returned UnexpectedToken error,      *)
(* never an abort.                                                         *)
(***************************************************************************)
C9_ParseAlwaysReturns ==
    (entry = "parse" /\ pc = "done") => result[1] \in {"Ok", "Err"}

C11_MutableForever ==
    [][ \A n \in Names :
          BoundMutable(n)
          => /\ contains_symbol(table', ancestors', n)
             /\ get_symbol(table', ancestors', n).mutable ]_vars

\* x was declared mutable, assigned to again, and the failing bare `mutable x`
\* that ended the parse left it mutable
C11_Witness ==
    /\ entry = "parse"
    /\ tokens = MutableStmt("x", "SimpleAssignment")
                    \o MutableStmt("x", "AdditionAssignment")
                    \o BareStmt("x")
    /\ pc = "done"
    /\ Len(statements) = 2
    /\ result = <<"Err", CannotConvertFromImmutableToMutable>>
    /\ BoundMutable("x")

(***************************************************************************)
(* C12.  parse and parse_block terminate.  Every statement parse leaves    *)
(* the cursor where it was or further on; one that returns Ok has consumed *)
(* at least one token, at least three if it began at `mutable`; one begun  *)
(* at end-of-file returns an error.  No step moves the cursor backwards,   *)
(* and the cursor never passes the end-of-file position.  So the number of *)
(* steps still to come, StepsLeft, is a natural number that every step     *)
(* which does not end the run strictly decreases, and a run that has not   *)
(* ended can always take a step: every run ends after at most              *)
(* Len(tokens) + 2 steps, parse with Ok at end-of-file, parse_block with   *)
(* Ok at end-of-file or behind a close brace, or either of them with the   *)
(* outcome of the statement that stopped the loop (an error, or the        *)
(* todo!() of parse_factor, for which see C9).                             *)
(***************************************************************************)
\* an upper bound on the steps a run that has not ended can still take
StepsLeft ==
    (Len(tokens) + 1 - pos) + (IF pc = "open" THEN 2 ELSE 1)

\* some step of the running function can be taken
CanStep ==
    \/ ParsesStatement
    \/ entry = "parse" /\ pc = "loop" /\ CurrentKind = EndOfFileToken
    \/ entry = "parse_block" /\ pc = "open"
    \/ /\ entry = "parse_block" /\ pc = "block_loop"
       /\ (CurrentKind = SymbolToken("}") \/ CurrentKind = EndOfFileToken)
    \/ entry \in {"match_operator", "match_token"} /\ pc = "call"

C12_Step ==
    /\ pos' >= pos
    /\ (pc' # "done") => StepsLeft' < StepsLeft
    /\ ParsesStatement
       => /\ StepOk => pos' >= pos + 1
          /\ (StepOk /\ CurrentKind = KeywordToken("mutable")) => pos' >= pos + 3
          /\ CurrentKind = EndOfFileToken
             => result' = <<"Err", UnexpectedToken(EndOfFileToken, 1, Len(tokens) + 1)>>
          /\ (pc' # "done") => StepOk

C12_Ended ==
    /\ pos <= Len(tokens) + 1
    /\ StepsLeft \in 1..(Len(tokens) + 2)
    /\ (pc # "done") => CanStep
    /\ (pc = "done" /\ entry \in {"parse", "parse_block"})
       => /\ result[1] \in {"Ok", "Err", "Panic"}
          /\ (entry = "parse" /\ result[1] = "Ok") => CurrentKind = EndOfFileToken
          /\ (entry = "parse_block" /\ result[1] = "Ok")
             => \/ CurrentKind = EndOfFileToken
                \/ (pos > 1 /\ tokens[pos - 1] = SymbolToken("}"))

C12_ParseTerminates == [][C12_Step]_vars /\ []C12_Ended

\* a program of three statements, the first a `mutable` one, was parsed to its end
C12_Witness ==
    /\ entry = "parse"
    /\ pc = "done"
    /\ result[1] = "Ok"
    /\ Len(statements) = MaxStmts
    /\ tokens[1] = KeywordToken("mutable")
    /\ pos = Len(tokens) + 1

(***************************************************************************)
(* C13.  Under parse, which starts from an empty global block, every       *)
(* binding in the symbol table is mutable at every moment, and the global  *)
(* block has no parent.  Hence a parse that fails with                     *)
(* CannotConvertFromImmutableToMutable failed in the bare `mutable name`   *)
(* arm and not in handle_mutable_assignment: the cursor is left at a       *)
(* `mutable` followed by an identifier and no operator (that arm consumes  *)
(* nothing, handle_mutable_assignment runs after the right-hand side was   *)
(* consumed), and the name is bound, as mutable.                           *)
(***************************************************************************)
OnlyMutableBindings ==
    /\ ancestors = <<>>
    /\ \A n \in DOMAIN table : table[n].mutable

====
